---- MODULE Spec2Model ----
(***************************************************************************)
(* Model of the offline ray tracer of lab2/raytracer_base_code:            *)
(* Sphere::intersect, Scene::intersect and the Renderer's trace / shade /  *)
(* reflect / inShadow call tree.                                           *)
(*                                                                         *)
(* Numbers.  The program computes in doubles; the model computes in        *)
(* fixed point on integers.                                                *)
(*   - A length (a coordinate, a ray parameter t, a radius) counts grid    *)
(*     steps of 5e-7 world units, so that 1e-6 is 2 steps, 1e-5 is 20      *)
(*     steps and 1e-4 is 200 steps.                                        *)
(*   - Directions and normals are unit vectors along an axis.  Scenes and  *)
(*     rays of the renderer lie on the y axis, where every square root,    *)
(*     quotient and normalisation the code computes is exact on the grid.  *)
(*   - A colour channel counts hundredths; an albedo channel counts        *)
(*     tenths; M_PI is the fraction 22/7.                                  *)
(***************************************************************************)
EXTENDS Integers, Sequences, FiniteSets

VARIABLES
    scene,      \* Scene: [objects, materials, lights]                (scene.h:9-11)
    ray,        \* the ray of the running intersection query / of the running trace
    tmin,       \* lower bound handed to the running intersection query
    tmax,       \* upper bound handed to the running intersection query
    sph,        \* the sphere Sphere::intersect is applied to
    rec,        \* Hit& rec of Sphere::intersect
    ok,         \* the bool an intersection query returned
    idx,        \* Scene::intersect: position of the range-for in objects (1-based)
    closest,    \* Scene::intersect: double closest
    hitAny,     \* Scene::intersect: bool hitAny
    best,       \* Scene::intersect: Hit& best
    temp,       \* Scene::intersect: Hit temp
    spp,        \* Renderer::spp
    smp,        \* renderPPM: the sample counter s of the pixel being rendered
    col,        \* renderPPM: Vec3 col of the pixel being rendered
    rng,        \* renderPPM: number of draws made from RNG rng
    prim,       \* renderPPM: Ray pr of the running sample
    stack,      \* the call stack below renderPPM: frames of trace, shade, reflect
    ret,        \* the Vec3 the last finished call returned, if one is being handed up
    calls,      \* calls made since the running sample began, by function
    shadowLog,  \* every inShadow call of the render: arguments, result, draws made before it
    cam,        \* Renderer::cam, the Camera of the render
    jRow,       \* renderPPM: the row counter j
    iCol,       \* renderPPM: the column counter i
    out,        \* renderPPM: std::ofstream out, its failure flag and the file behind it
    err,        \* what was written to std::cerr
    gen,        \* RNG::gen, the state of the generator
    trail,      \* the draws, trace calls and writes of the running render, in order
    run,        \* which call of render_scene_ppm is running
    prevFile,   \* the file the previous call of render_scene_ppm left
    issued,     \* every addMaterial call so far: materials before it, material, index returned
    argv,       \* main: the command line after the program's name
    disk,       \* main: what the mesh path holds: exists, parses, vertices, indices
    frame,      \* main: its locals
    renders,    \* main: calls of render_scene_ppm made
    exitCode,   \* main: the value returned, -1 while it runs
    pc          \* position of the running operation

sphereVars == <<sph, rec>>

scanVars == <<idx, closest, hitAny, best, temp>>

queryVars == <<scene, ray, tmin, tmax>>

renderVars == <<spp, smp, col, rng, prim, stack, ret, calls, shadowLog>>

imageVars == <<cam, jRow, iCol, out, err, gen, trail, run, prevFile>>

buildVars == <<issued, argv, disk, frame, renders, exitCode>>

vars == <<scene, ray, tmin, tmax, sph, rec, ok, idx, closest, hitAny, best, temp,
          spp, smp, col, rng, prim, stack, ret, calls, shadowLog,
          cam, jRow, iCol, out, err, gen, trail, run, prevFile,
          issued, argv, disk, frame, renders, exitCode, pc>>

(***************************************************************************)
(* Program constants, on the grid.                                         *)
(***************************************************************************)
\* renderer.cpp:116  scene.intersect(r, 1e-6, 1e9, h): 1e-6 is 2 grid steps.
TraceTMin == 2
\* renderer.cpp:116  1e9 world units; every length the bounded model forms is
\* below it, and it is kept at the largest magnitude the grid arithmetic holds.
TraceTMax == 2000000000
\* renderer.cpp:27   eps(1e-4): 200 grid steps.
Eps == 200
\* renderer.cpp:80   distL - 1e-5: 20 grid steps.
ShadowSlack == 20
\* renderer.cpp:80   scene.intersect(shadowRay, 0.0, ...)
ShadowTMin == 0

(***************************************************************************)
(* Vec3 (vec3.h) and Ray (ray.h).                                          *)
(***************************************************************************)
Vec3(x, y, z) == <<x, y, z>>

Zero3 == Vec3(0, 0, 0)

VAdd(a, b) == <<a[1] + b[1], a[2] + b[2], a[3] + b[3]>>

VSub(a, b) == <<a[1] - b[1], a[2] - b[2], a[3] - b[3]>>

VScale(a, k) == <<a[1] * k, a[2] * k, a[3] * k>>

dot(a, b) == a[1] * b[1] + a[2] * b[2] + a[3] * b[3]

hadamard(a, b) == <<a[1] * b[1], a[2] * b[2], a[3] * b[3]>>

Max(a, b) == IF a >= b THEN a ELSE b

\* Quotient rounded toward zero, as a double quotient cut to the grid.
QuotZ(a, b) == IF a >= 0 THEN a \div b ELSE -((-a) \div b)

VDiv(a, k) == <<QuotZ(a[1], k), QuotZ(a[2], k), QuotZ(a[3], k)>>

\* std::sqrt on the grid: the integer square root (exact on perfect squares).
RECURSIVE Sqrt(_)
Sqrt(n) ==
    IF n < 2 THEN n
    ELSE LET s == 2 * Sqrt(n \div 4)
         IN  IF (s + 1) * (s + 1) <= n THEN s + 1 ELSE s

length(a) == Sqrt(dot(a, a))

normalize(a) == VDiv(a, length(a))

\* Ray: origin and normalized direction.
Ray(o, d) == [o |-> o, d |-> normalize(d)]

\* Ray::at
RayAt(r, t) == VAdd(r.o, VScale(r.d, t))

(***************************************************************************)
(* Hit (hittable.h:7-13).  Only `hit` has an initializer; the other        *)
(* fields of a fresh Hit hold whatever the stack held, here `junk`.        *)
(***************************************************************************)
NewHit(junk) == [t |-> junk, p |-> Vec3(junk, junk, junk), n |-> Vec3(junk, junk, junk),
                 matId |-> junk, hit |-> FALSE]

(***************************************************************************)
(* Sphere::intersect (sphere.h:13-38).  Returns the bool and the record    *)
(* rec as the call leaves it.                                              *)
(***************************************************************************)
SphereDisc(s, r) ==
    LET oc == VSub(r.o, s.c)
        a  == dot(r.d, r.d)
        b  == dot(oc, r.d)
        c2 == dot(oc, oc) - s.R * s.R
    IN  b * b - a * c2

\* The two roots, smaller first (sphere.h:24, 27).
SphereRoot1(s, r) ==
    QuotZ(-dot(VSub(r.o, s.c), r.d) - Sqrt(SphereDisc(s, r)), dot(r.d, r.d))

SphereRoot2(s, r) ==
    QuotZ(-dot(VSub(r.o, s.c), r.d) + Sqrt(SphereDisc(s, r)), dot(r.d, r.d))

\* Mutant of OutOfRange: both bounds exclusive.
OutOfRangeOpen(t, lo, hi) == t <= lo \/ t >= hi

\* sphere.h:26  if(t<tmin||t>tmax)
OutOfRange(t, lo, hi) == t < lo \/ t > hi

\* Mutant of SphereFill: the normal points from the hit point to the centre.
SphereFillInward(s, r, t) ==
    LET p == RayAt(r, t)
    IN  [t |-> t, p |-> p, n |-> normalize(VSub(s.c, p)), matId |-> s.matId, hit |-> TRUE]

\* sphere.h:31-35
SphereFill(s, r, t) ==
    LET p == RayAt(r, t)
    IN  [t |-> t, p |-> p, n |-> normalize(VSub(p, s.c)), matId |-> s.matId, hit |-> TRUE]

\* Mutant of SphereIntersect: rec.t is assigned before the range tests.
SphereIntersectWritesFirst(s, r, lo, hi, h) ==
    IF SphereDisc(s, r) < 0 THEN [ok |-> FALSE, rec |-> h]
    ELSE LET t1 == SphereRoot1(s, r)
             t2 == SphereRoot2(s, r)
         IN  IF ~OutOfRange(t1, lo, hi) THEN [ok |-> TRUE, rec |-> SphereFill(s, r, t1)]
             ELSE IF ~OutOfRange(t2, lo, hi) THEN [ok |-> TRUE, rec |-> SphereFill(s, r, t2)]
             ELSE [ok |-> FALSE, rec |-> [h EXCEPT !.t = t2]]

\* sphere.h:13-38
SphereIntersect(s, r, lo, hi, h) ==
    IF SphereDisc(s, r) < 0 THEN [ok |-> FALSE, rec |-> h]
    ELSE LET t1 == SphereRoot1(s, r)
             t2 == SphereRoot2(s, r)
         IN  IF ~OutOfRange(t1, lo, hi) THEN [ok |-> TRUE, rec |-> SphereFill(s, r, t1)]
             ELSE IF ~OutOfRange(t2, lo, hi) THEN [ok |-> TRUE, rec |-> SphereFill(s, r, t2)]
             ELSE [ok |-> FALSE, rec |-> h]

(***************************************************************************)
(* Scene::intersect (scene.h:26-38).  Every object of the model is a       *)
(* Sphere; obj->intersect dispatches to Sphere::intersect.                 *)
(***************************************************************************)
ObjIntersect(obj, r, lo, hi, h) == SphereIntersect(obj, r, lo, hi, h)

\* scene.h:27-29: the locals before the loop.
ScanStart(hi, b, junk) == [hitAny |-> FALSE, closest |-> hi, best |-> b, temp |-> NewHit(junk)]

\* Mutant of ScanBody: every object is tested against tmax, closest is not kept.
ScanBodyNoShrink(obj, r, lo, st) ==
    LET res == ObjIntersect(obj, r, lo, tmax, st.temp)
    IN  IF res.ok
        THEN [hitAny |-> TRUE, closest |-> st.closest, best |-> res.rec, temp |-> res.rec]
        ELSE [st EXCEPT !.temp = res.rec]

\* scene.h:31-35: one pass of the loop body over obj.
ScanBody(obj, r, lo, st) ==
    LET res == ObjIntersect(obj, r, lo, st.closest, st.temp)
    IN  IF res.ok
        THEN [hitAny |-> TRUE, closest |-> res.rec.t, best |-> res.rec, temp |-> res.rec]
        ELSE [st EXCEPT !.temp = res.rec]

\* scene.h:30-36: the loop from object i on.
RECURSIVE ScanFrom(_, _, _, _, _)
ScanFrom(objs, i, r, lo, st) ==
    IF i > Len(objs) THEN st
    ELSE ScanFrom(objs, i + 1, r, lo, ScanBody(objs[i], r, lo, st))

\* The whole call: the bool returned and best as the call leaves it.
SceneIntersect(sc, r, lo, hi, b) ==
    LET st == ScanFrom(sc.objects, 1, r, lo, ScanStart(hi, b, 0))
    IN  [ok |-> st.hitAny, rec |-> st.best]

(***************************************************************************)
(* Bounds and input sets.                                                  *)
(***************************************************************************)
\* Most objects of a scene.
MaxObjects == 2
\* Ray origins are tried up to this many grid steps on either side of a
\* sphere's surface.
NearSteps == 3

\* Values an uninitialized field of a fresh Hit may hold.
StackJunk == {0, 7}

\* All sequences over S of length at most n.
RECURSIVE SeqsUpTo(_, _)
SeqsUpTo(S, n) ==
    IF n = 0 THEN {<< >>}
    ELSE LET shorter == SeqsUpTo(S, n - 1)
         IN  shorter \cup {Append(q, x) : q \in {w \in shorter : Len(w) = n - 1}, x \in S}

\* Material (material.h:5-9): albedo in tenths, reflective flag.
Material(a, r) == [albedo |-> a, reflective |-> r]

\* The materials of every scene of the model: 0 diffuse grey (the default
\* albedo of material.h:8), 1 a mirror.
Materials == << Material(Vec3(8, 8, 8), FALSE), Material(Vec3(8, 2, 2), TRUE) >>

\* A material id is an index of scene.materials, counted from 0 as in the code.
MaterialAt(sc, matId) == sc.materials[matId + 1]

\* Sphere (sphere.h:4-10)
Sphere(c, R, m) == [kind |-> "sphere", c |-> c, R |-> R, matId |-> m]

AxisY == Vec3(0, 1, 0)

AxisX == Vec3(1, 0, 0)

OnY(y) == Vec3(0, y, 0)

\* Spheres of the renderer's scenes: centres on the y axis.
Centres == {-200, 0, 1000}

Radii == {300}

SceneSpheres == {Sphere(OnY(cy), R, m) : cy \in Centres, R \in Radii, m \in {0, 1}}

\* No value is being handed up.
NoRet == [has |-> FALSE, v |-> Zero3]

NoCalls == [trace |-> 0, shade |-> 0, reflect |-> 0, inShadow |-> 0]

\* No render is running.
RenderIdle ==
    /\ spp = 0 /\ smp = 0 /\ col = Zero3 /\ rng = 0
    /\ prim = Ray(Zero3, AxisY)
    /\ stack = << >> /\ ret = NoRet /\ calls = NoCalls /\ shadowLog = {}

(***************************************************************************)
(* Camera (camera.h:7-25).  Screen coordinates, the half extents and the   *)
(* components of a primary ray's direction count thousandths.              *)
(***************************************************************************)
cross(a, b) == <<a[2] * b[3] - a[3] * b[2], a[3] * b[1] - a[1] * b[3], a[1] * b[2] - a[2] * b[1]>>

\* camera.h:16-17  std::tan(vfov/2.0) for vfov_deg*(PI/180.0), in thousandths,
\* for the fields of view the model uses: 90, 45 and 0 degrees.
TanHalf(vfov_deg) == IF vfov_deg = 90 THEN 1000 ELSE IF vfov_deg = 45 THEN 414 ELSE 0

\* camera.h:15-19.  eye - look and up lie along axes, where normalize is exact.
Camera(eye, look, up, vfov_deg, W, H) ==
    LET halfH == TanHalf(vfov_deg)
        w     == normalize(VSub(eye, look))
        u     == normalize(cross(up, w))
    IN  [eye |-> eye, look |-> look, up |-> up, vfov_deg |-> vfov_deg, W |-> W, H |-> H,
         halfH |-> halfH, halfW |-> QuotZ(W * halfH, H),
         u |-> u, v |-> cross(w, u), w |-> w]

\* normalize of a vector whose components count thousandths.
NormalizeMilli(a) == VDiv(VScale(a, 1000), length(a))

\* camera.h:22-24.  The direction is a unit vector in thousandths, which the
\* Ray constructor's normalization leaves as it is.
Primary(c, sx, sy) ==
    LET dir == VAdd(VScale(c.w, -1000),
                    VAdd(VDiv(VScale(c.u, sx * c.halfW), 1000),
                         VDiv(VScale(c.v, sy * c.halfH), 1000)))
    IN  [o |-> c.eye, d |-> NormalizeMilli(dir)]

(***************************************************************************)
(* RNG (renderer.cpp:13-22).  std::mt19937_64 is a generator on 8 states   *)
(* here; a draw of uniform_real_distribution(0.0, 1.0) is one of the       *)
(* eighths 0, 1/8, ..., 7/8, in thousandths.                               *)
(***************************************************************************)
\* renderer.cpp:18  seed ? seed : clock
RNGSeed(seed, clock) == IF seed # 0 THEN seed ELSE clock

\* renderer.cpp:18  gen(...): the state a seed leaves the generator in.
GenSeeded(seed) == seed % 8

\* One step of the generator.
GenStep(g) == (5 * g + 3) % 8

\* renderer.cpp:21  the value uniform() returns from the stepped generator.
Uniform(g) == (g * 1000) \div 8

(***************************************************************************)
(* Tone mapping and quantization (renderer.cpp:47-55, 124-127).            *)
(***************************************************************************)
\* renderer.cpp:48-50  c / (1.0 + c), in hundredths.
Reinhard(c) == QuotZ(c * 100, 100 + c)

\* std::pow(c, 1.0 / 2.2) for c = 0, 0.01, ..., 1.00, in thousandths.
PowTable ==
    << 0, 123, 168, 203, 231, 256, 278, 298, 317, 334,
       351, 366, 381, 395, 409, 422, 434, 446, 458, 470,
       481, 491, 502, 512, 522, 532, 542, 551, 560, 569,
       578, 587, 595, 604, 612, 620, 628, 636, 644, 651,
       659, 666, 674, 681, 688, 695, 702, 709, 716, 723,
       729, 736, 742, 749, 755, 762, 768, 774, 780, 786,
       792, 798, 804, 810, 816, 822, 827, 833, 839, 844,
       850, 855, 861, 866, 872, 877, 882, 887, 893, 898,
       903, 908, 913, 918, 923, 928, 933, 938, 943, 948,
       953, 958, 962, 967, 972, 976, 981, 986, 990, 995,
       1000 >>

\* renderer.cpp:124-127  toSRGB: hundredths in, thousandths out.  Above 1.0
\* the power is above 1.0.
ToSRGB(c) ==
    LET m == Max(0, c)
    IN  IF m > 100 THEN 1001 ELSE PowTable[m + 1]

\* std::clamp
Clamp(x, lo, hi) == IF x < lo THEN lo ELSE IF x > hi THEN hi ELSE x

\* renderer.cpp:53  (unsigned char)(std::clamp(toSRGB(c), 0.0, 1.0) * 255.99)
Byte(c) == (Clamp(ToSRGB(c), 0, 1000) * 25599) \div 100000

\* No render of a whole image is running.
ImageIdle ==
    /\ cam = Camera(OnY(-1500), OnY(0), AxisX, 0, 1, 1)
    /\ jRow = 0 /\ iCol = 0
    /\ out = [fail |-> FALSE, file |-> << >>]
    /\ err = << >> /\ gen = 0 /\ trail = << >> /\ run = 0 /\ prevFile = << >>

(***************************************************************************)
(* Scene::addMaterial and Scene::add (scene.h:14-22).                      *)
(***************************************************************************)
\* Mutant of AddMaterial: the size after the push is returned.
AddMaterialSize(sc, m) ==
    LET after == [sc EXCEPT !.materials = Append(@, m)]
    IN  [scene |-> after, id |-> Len(after.materials)]

\* Mutant of AddMaterial: the material is not stored.
AddMaterialNoPush(sc, m) == [scene |-> sc, id |-> Len(sc.materials) - 1]

\* scene.h:14-17: the scene after the call and the int returned.
AddMaterial(sc, m) ==
    LET after == [sc EXCEPT !.materials = Append(@, m)]
    IN  [scene |-> after, id |-> Len(after.materials) - 1]

\* scene.h:20-22
AddObject(sc, obj) == [sc EXCEPT !.objects = Append(@, obj)]

\* std::vector::push_back on lights (main.cpp:25)
AddLight(sc, L) == [sc EXCEPT !.lights = Append(@, L)]

\* Scene sc;
EmptyScene == [objects |-> << >>, materials |-> << >>, lights |-> << >>]

NoFrame == [matGrey |-> -1, matBunny |-> -1, matRed |-> -1, matGreen |-> -1, matBlue |-> -1,
            objPath |-> "", loaded |-> FALSE, V |-> 0, I |-> << >>]

\* No scene is being built and main is not running.
BuildIdle ==
    /\ issued = << >> /\ argv = << >>
    /\ disk = [exists |-> FALSE, parses |-> FALSE, V |-> 0, I |-> << >>]
    /\ frame = NoFrame /\ renders = 0 /\ exitCode = -1

(***************************************************************************)
(* SpecSphere: Sphere::intersect as a function of its arguments.           *)
(***************************************************************************)
SphereInputs == {Sphere(OnY(cy), R, 0) : cy \in {0, 600}, R \in {5, 300}}

\* Distances of a ray origin from the centre, along the ray's axis.
Distances(R) == {R + k : k \in (-NearSteps)..NearSteps} \cup {0, 100, 800}

\* Offsets of the ray's line from the centre: through it, cutting the sphere
\* of radius 300 (a 180-240-300 triangle), tangent to it, missing it.
Perps == {0, 180, 300, 400}

TMins == {ShadowTMin, TraceTMin}

TMaxs == {TraceTMax, 180, 600}

InitSphere ==
    /\ sph \in SphereInputs
    /\ \E dist \in Distances(sph.R), side \in {-1, 1}, perp \in Perps,
          axis \in {AxisX, AxisY}, sgn \in {-1, 1}, k \in {1, 3} :
          LET other == IF axis = AxisX THEN AxisY ELSE AxisX
          IN  ray = Ray(VAdd(sph.c, VAdd(VScale(axis, side * dist), VScale(other, perp))),
                        VScale(axis, sgn * k))
    /\ tmin \in TMins
    /\ tmax \in TMaxs
    /\ \E j \in StackJunk : rec = NewHit(j)
    /\ ok = FALSE
    /\ scene = [objects |-> << >>, materials |-> Materials, lights |-> << >>]
    /\ idx = 0 /\ closest = 0 /\ hitAny = FALSE
    /\ best = NewHit(0) /\ temp = NewHit(0)
    /\ RenderIdle /\ ImageIdle /\ BuildIdle
    /\ pc = "call"

\* sph.intersect(ray, tmin, tmax, rec)
CallSphere ==
    /\ pc = "call"
    /\ LET res == SphereIntersect(sph, ray, tmin, tmax, rec)
       IN  ok' = res.ok /\ rec' = res.rec
    /\ pc' = "ret"
    /\ UNCHANGED <<queryVars, sph, scanVars, renderVars, imageVars, buildVars>>

NextSphere == CallSphere

SpecSphere == InitSphere /\ [][NextSphere]_vars

(***************************************************************************)
(* SpecScan: Scene::intersect, one pass of its loop per step.              *)
(***************************************************************************)
ScanRays == {Ray(OnY(oy), VScale(AxisY, sgn)) : oy \in {-1500, -400, 500, 1500}, sgn \in {-1, 1}}

\* The spheres of a scanned scene: those of the renderer's scenes and one
\* that touches the sphere at the origin, at y = 300.
ScanSpheres == SceneSpheres \cup {Sphere(OnY(600), 300, m) : m \in {0, 1}}

InitScan ==
    /\ \E objs \in SeqsUpTo(ScanSpheres, MaxObjects) :
          scene = [objects |-> objs, materials |-> Materials, lights |-> << >>]
    /\ ray \in ScanRays
    /\ tmin \in TMins
    /\ tmax \in TMaxs \cup {1200}
    /\ \E j \in StackJunk :
          /\ best = NewHit(j)
          /\ LET st == ScanStart(tmax, best, j)
             IN  hitAny = st.hitAny /\ closest = st.closest /\ temp = st.temp
    /\ idx = 1
    /\ ok = FALSE
    /\ sph = Sphere(Zero3, 0, 0) /\ rec = NewHit(0)
    /\ RenderIdle /\ ImageIdle /\ BuildIdle
    /\ pc = "scan"

\* scene.h:30-36
ScanStep ==
    /\ pc = "scan"
    /\ idx <= Len(scene.objects)
    /\ LET st == ScanBody(scene.objects[idx], ray, tmin,
                          [hitAny |-> hitAny, closest |-> closest, best |-> best, temp |-> temp])
       IN  /\ hitAny' = st.hitAny
           /\ closest' = st.closest
           /\ best' = st.best
           /\ temp' = st.temp
    /\ idx' = idx + 1
    /\ UNCHANGED <<queryVars, sphereVars, ok, pc, renderVars, imageVars, buildVars>>

\* scene.h:37
ScanReturn ==
    /\ pc = "scan"
    /\ idx > Len(scene.objects)
    /\ ok' = hitAny
    /\ pc' = "scanned"
    /\ UNCHANGED <<queryVars, sphereVars, scanVars, renderVars, imageVars, buildVars>>

NextScan == ScanStep \/ ScanReturn

SpecScan == InitScan /\ [][NextScan]_vars

(***************************************************************************)
(* Renderer (renderer.cpp:24-128): the functions.                          *)
(***************************************************************************)
White == Vec3(100, 100, 100)

SkyBlue == Vec3(60, 80, 100)

\* Mutant of Sky: the blend weights are exchanged.
SkyFlipped(r) ==
    LET u  == normalize(r.d)
        t2 == u[2] + 1
    IN  VDiv(VAdd(VScale(White, t2), VScale(SkyBlue, 2 - t2)), 2)

\* renderer.cpp:119-121.  t2 is 2t, so (1-t)*white + t*blue is
\* ((2-t2)*white + t2*blue)/2.
Sky(r) ==
    LET u  == normalize(r.d)
        t2 == u[2] + 1
    IN  VDiv(VAdd(VScale(White, 2 - t2), VScale(SkyBlue, t2)), 2)

\* PointLight (scene.h:7)
PointLight(pos, intensity) == [pos |-> pos, intensity |-> intensity]

\* renderer.cpp:74-77: the shadow ray and the distance to the light.
ShadowDist(p, L) == length(VSub(L.pos, p))

ShadowRay(p, n, L) ==
    LET toL == VSub(L.pos, p)
    IN  Ray(VAdd(p, VScale(n, Eps)), VDiv(toL, length(toL)))

\* Mutant of InShadow: a Hit kept between calls, whose flag is returned.
InShadowStaleHit(sc, p, n, L) ==
    \/ SceneIntersect(sc, ShadowRay(p, n, L), ShadowTMin, ShadowDist(p, L) - ShadowSlack,
                      NewHit(0)).ok
    \/ \E e \in shadowLog : e.res

\* Mutant of InShadow: the interval ends eps beyond the distance to the light
\* instead of 1e-5 short of it.
InShadowNoSlack(sc, p, n, L) ==
    SceneIntersect(sc, ShadowRay(p, n, L), ShadowTMin, ShadowDist(p, L) + Eps, NewHit(0)).ok

\* renderer.cpp:73-84
InShadow(sc, p, n, L) ==
    SceneIntersect(sc, ShadowRay(p, n, L), ShadowTMin, ShadowDist(p, L) - ShadowSlack,
                   NewHit(0)).ok

\* renderer.cpp:86-89: the reflected ray.
ReflectRay(h, r) ==
    LET in_vec  == VSub(h.p, r.o)
        nn      == normalize(h.n)
        ref_vec == VSub(in_vec, VScale(nn, 2 * dot(in_vec, nn)))
    IN  Ray(h.p, ref_vec)

\* renderer.cpp:104-108: what one unoccluded light adds.  4*M_PI is 88/7.
LightContribution(m, h, L) ==
    LET wi    == normalize(VSub(L.pos, h.p))
        ndotl == Max(0, dot(h.n, wi))
        d2    == dot(VSub(L.pos, h.p), VSub(L.pos, h.p))
        Li    == <<QuotZ(L.intensity[1] * 7, 88 * d2), QuotZ(L.intensity[2] * 7, 88 * d2),
                   QuotZ(L.intensity[3] * 7, 88 * d2)>>
    IN  VDiv(VScale(hadamard(m.albedo, Li), ndotl), 10)

\* Mutant of LightAccum: the shadow test does not skip the light.
LightAccumNoSkip(c, sc, m, h, L) == VAdd(c, LightContribution(m, h, L))

\* renderer.cpp:102-108: one pass of the loop over the lights.
LightAccum(c, sc, m, h, L) ==
    IF InShadow(sc, h.p, h.n, L) THEN c ELSE VAdd(c, LightContribution(m, h, L))

\* Mutant of ShadeReflective: the mirror adds its own direct lighting.
ShadeReflectivePlusOwn(reflected, m, h) == VAdd(reflected, VScale(m.albedo, 10))

\* renderer.cpp:96-98: what shade returns for a reflective material.
ShadeReflective(reflected, m, h) == reflected

\* renderer.cpp:117: what trace returns on a hit.
TraceHit(shaded, r) == shaded

(***************************************************************************)
(* Spec: the sample loop of one pixel (renderer.cpp:38-47) and the calls   *)
(* below it.  The two draws of a sample and cam.primary decide the primary *)
(* ray; here it is any ray of PrimaryRays.                                 *)
(***************************************************************************)
\* Most samples per pixel.
MaxSpp == 2
\* Most nested reflect calls the stack holds.
MaxDepth == 18

PrimaryRays == {Ray(OnY(oy), VScale(AxisY, sgn)) : oy \in {-400, 500}, sgn \in {-1, 1}}

LightCatalog == << PointLight(OnY(-2000), Vec3(300000000, 300000000, 300000000)),
                   PointLight(OnY(500), Vec3(300000000, 200000000, 100000000)) >>

\* The lights of a scene: any of the catalog, in its order.
RECURSIVE SubSeqs(_)
SubSeqs(q) ==
    IF q = << >> THEN {<< >>}
    ELSE LET rest == SubSeqs(Tail(q))
         IN  rest \cup {<<Head(q)>> \o w : w \in rest}

\* The objects of a scene: spheres with distinct centres, in any order.
RenderObjects ==
    {objs \in SeqsUpTo(SceneSpheres, MaxObjects) :
        \A i, k \in 1..Len(objs) : i # k => objs[i].c # objs[k].c}

Frame(fn, r, h) == [fn |-> fn, at |-> "entry", r |-> r, h |-> h, li |-> 0, c |-> Zero3,
                    tests |-> 0, traces |-> 0]

Top == stack[Len(stack)]

Pop == SubSeq(stack, 1, Len(stack) - 1)

SetTop(f) == [stack EXCEPT ![Len(stack)] = f]

\* Nested reflect calls on the stack: the depth of the running trace.
Depth == Cardinality({i \in 1..Len(stack) : stack[i].fn = "reflect"})

Init ==
    /\ \E objs \in RenderObjects, ls \in SubSeqs(LightCatalog) :
          scene = [objects |-> objs, materials |-> Materials, lights |-> ls]
    /\ spp \in 1..MaxSpp
    /\ smp = 0 /\ col = Zero3 /\ rng = 0
    /\ prim = Ray(Zero3, AxisY)
    /\ stack = << >> /\ ret = NoRet /\ calls = NoCalls /\ shadowLog = {}
    /\ ray = prim /\ tmin = 0 /\ tmax = 0
    /\ sph = Sphere(Zero3, 0, 0) /\ rec = NewHit(0) /\ ok = FALSE
    /\ idx = 0 /\ closest = 0 /\ hitAny = FALSE /\ best = NewHit(0) /\ temp = NewHit(0)
    /\ ImageIdle /\ BuildIdle
    /\ pc = "loop"

idleVars == <<queryVars, sphereVars, ok, scanVars>>

\* renderer.cpp:40-44: two draws, the primary ray, the call of trace.
Sample ==
    /\ pc = "loop"
    /\ smp < spp
    /\ rng' = rng + 2
    /\ prim' \in PrimaryRays
    /\ stack' = << Frame("trace", prim', NewHit(0)) >>
    /\ calls' = [NoCalls EXCEPT !.trace = 1]
    /\ ret' = NoRet
    /\ pc' = "run"
    /\ UNCHANGED <<idleVars, imageVars, buildVars, spp, smp, col, shadowLog>>

\* What scene.intersect gives the trace frame on top of the stack.
TopQuery == SceneIntersect(scene, Top.r, TraceTMin, TraceTMax, Top.h)

\* renderer.cpp:115-117: trace finds a hit and calls shade.
TraceCallsShade ==
    /\ pc = "run" /\ stack # << >>
    /\ Top.fn = "trace" /\ Top.at = "entry"
    /\ TopQuery.ok
    /\ stack' = Append(SetTop([Top EXCEPT !.at = "wait", !.h = TopQuery.rec]),
                       Frame("shade", Top.r, TopQuery.rec))
    /\ calls' = [calls EXCEPT !.shade = @ + 1]
    /\ UNCHANGED <<idleVars, imageVars, buildVars, spp, smp, col, rng, prim, ret, shadowLog, pc>>

\* renderer.cpp:115-116, 119-121: trace finds no hit and returns the sky.
TraceReturnsSky ==
    /\ pc = "run" /\ stack # << >>
    /\ Top.fn = "trace" /\ Top.at = "entry"
    /\ ~TopQuery.ok
    /\ stack' = Pop
    /\ ret' = [has |-> TRUE, v |-> Sky(Top.r)]
    /\ UNCHANGED <<idleVars, imageVars, buildVars, spp, smp, col, rng, prim, calls, shadowLog, pc>>

\* renderer.cpp:93-98: shade of a reflective material calls reflect.
ShadeCallsReflect ==
    /\ pc = "run" /\ stack # << >>
    /\ Top.fn = "shade" /\ Top.at = "entry"
    /\ MaterialAt(scene, Top.h.matId).reflective
    /\ stack' = Append(SetTop([Top EXCEPT !.at = "wait", !.traces = calls.trace]),
                       Frame("reflect", Top.r, Top.h))
    /\ calls' = [calls EXCEPT !.reflect = @ + 1]
    /\ UNCHANGED <<idleVars, imageVars, buildVars, spp, smp, col, rng, prim, ret, shadowLog, pc>>

\* renderer.cpp:93-99: shade of any other material starts its loop over the lights.
ShadeStartsLights ==
    /\ pc = "run" /\ stack # << >>
    /\ Top.fn = "shade" /\ Top.at = "entry"
    /\ ~MaterialAt(scene, Top.h.matId).reflective
    /\ stack' = SetTop([Top EXCEPT !.at = "lights", !.li = 1, !.c = Zero3])
    /\ UNCHANGED <<idleVars, imageVars, buildVars, spp, smp, col, rng, prim, ret, calls, shadowLog, pc>>

\* renderer.cpp:86-90: reflect up to its call of trace.
Reflect ==
    /\ pc = "run" /\ stack # << >>
    /\ Top.fn = "reflect" /\ Top.at = "entry"
    /\ Depth <= MaxDepth
    /\ stack' = Append(SetTop([Top EXCEPT !.at = "wait"]),
                       Frame("trace", ReflectRay(Top.h, Top.r), NewHit(0)))
    /\ calls' = [calls EXCEPT !.trace = @ + 1]
    /\ UNCHANGED <<idleVars, imageVars, buildVars, spp, smp, col, rng, prim, ret, shadowLog, pc>>

\* The recursion of renderer.cpp:90 has no bound: the stack runs out.
StackOverflow ==
    /\ pc = "run" /\ stack # << >>
    /\ Top.fn = "reflect" /\ Top.at = "entry"
    /\ Depth > MaxDepth
    /\ pc' = "overflow"
    /\ UNCHANGED <<idleVars, imageVars, buildVars, renderVars>>

\* renderer.cpp:101-109: one pass of the loop over the lights.
LightStep ==
    /\ pc = "run" /\ stack # << >>
    /\ Top.fn = "shade" /\ Top.at = "lights"
    /\ Top.li <= Len(scene.lights)
    /\ LET L == scene.lights[Top.li]
           m == MaterialAt(scene, Top.h.matId)
       IN  /\ stack' = SetTop([Top EXCEPT !.c = LightAccum(Top.c, scene, m, Top.h, L),
                                          !.li = @ + 1, !.tests = @ + 1])
           /\ shadowLog' = shadowLog \cup
                  {[p |-> Top.h.p, n |-> Top.h.n, L |-> L,
                    res |-> InShadow(scene, Top.h.p, Top.h.n, L), rng |-> rng]}
    /\ calls' = [calls EXCEPT !.inShadow = @ + 1]
    /\ UNCHANGED <<idleVars, imageVars, buildVars, spp, smp, col, rng, prim, ret, pc>>

\* renderer.cpp:111: shade returns c.
ShadeReturn ==
    /\ pc = "run" /\ stack # << >>
    /\ Top.fn = "shade" /\ Top.at = "lights"
    /\ Top.li > Len(scene.lights)
    /\ ret' = [has |-> TRUE, v |-> Top.c]
    /\ stack' = Pop
    /\ UNCHANGED <<idleVars, imageVars, buildVars, spp, smp, col, rng, prim, calls, shadowLog, pc>>

\* renderer.cpp:90, 97, 117: the caller returns what its callee returned.
Return ==
    /\ pc = "run" /\ stack # << >>
    /\ Top.at = "wait"
    /\ ret.has
    /\ ret' = [has |-> TRUE,
               v |-> IF Top.fn = "trace" THEN TraceHit(ret.v, Top.r)
                     ELSE IF Top.fn = "shade"
                          THEN ShadeReflective(ret.v, MaterialAt(scene, Top.h.matId), Top.h)
                          ELSE ret.v]
    /\ stack' = Pop
    /\ UNCHANGED <<idleVars, imageVars, buildVars, spp, smp, col, rng, prim, calls, shadowLog, pc>>

\* renderer.cpp:44, 40: col += trace(pr); ++s.
Accumulate ==
    /\ pc = "run" /\ stack = << >>
    /\ ret.has
    /\ col' = VAdd(col, ret.v)
    /\ smp' = smp + 1
    /\ ret' = NoRet
    /\ pc' = "loop"
    /\ UNCHANGED <<idleVars, imageVars, buildVars, spp, rng, prim, stack, calls, shadowLog>>

\* renderer.cpp:47: col = col / double(spp).
Average ==
    /\ pc = "loop"
    /\ smp = spp
    /\ col' = VDiv(col, spp)
    /\ pc' = "sampled"
    /\ UNCHANGED <<idleVars, imageVars, buildVars, spp, smp, rng, prim, stack, ret, calls, shadowLog>>

Next ==
    \/ Sample \/ TraceCallsShade \/ TraceReturnsSky \/ ShadeCallsReflect \/ ShadeStartsLights
    \/ Reflect \/ StackOverflow
    \/ LightStep \/ ShadeReturn \/ Return \/ Accumulate \/ Average

Spec == Init /\ [][Next]_vars

(***************************************************************************)
(* trace as a function of the scene and the ray (renderer.cpp:86-122),     *)
(* for the whole-image render below.                                       *)
(***************************************************************************)
\* renderer.cpp:99-111: shade's loop over the lights from light li on.
RECURSIVE ShadeFrom(_, _, _, _)
ShadeFrom(sc, h, li, c) ==
    IF li > Len(sc.lights) THEN c
    ELSE ShadeFrom(sc, h, li + 1, LightAccum(c, sc, MaterialAt(sc, h.matId), h, sc.lights[li]))

\* renderer.cpp:114-122 with shade and reflect: the colour trace returns, or
\* no return when the bounces outgrow the stack.
RECURSIVE TraceValue(_, _, _)
TraceValue(sc, r, depth) ==
    LET q == SceneIntersect(sc, r, TraceTMin, TraceTMax, NewHit(0))
    IN  IF ~q.ok THEN [returns |-> TRUE, v |-> Sky(r)]
        ELSE IF MaterialAt(sc, q.rec.matId).reflective
             THEN IF depth >= MaxDepth THEN [returns |-> FALSE, v |-> Zero3]
                  ELSE TraceValue(sc, ReflectRay(q.rec, r), depth + 1)
             ELSE [returns |-> TRUE, v |-> ShadeFrom(sc, q.rec, 1, Zero3)]

\* renderer.cpp:119-121 for a direction in thousandths.
SkyOfDir(d) ==
    LET u  == NormalizeMilli(d)
        t2 == u[2] + 1000
    IN  VDiv(VAdd(VScale(White, 2000 - t2), VScale(SkyBlue, t2)), 2000)

\* trace of a primary ray.  Without objects the loop of Scene::intersect has
\* no pass and the sky is returned; with objects the primary ray lies on an
\* axis (field of view 0), where the grid of lengths is exact.
TraceImage(sc, r) ==
    IF sc.objects = << >> THEN [returns |-> TRUE, v |-> SkyOfDir(r.d)]
    ELSE TraceValue(sc, Ray(r.o, r.d), 0)

(***************************************************************************)
(* SpecImage: render_scene_ppm (renderer.cpp:133-136) and renderPPM        *)
(* (renderer.cpp:29-63), called twice with the same arguments.             *)
(***************************************************************************)
\* Most columns and rows of an image.
MaxW == 2

MaxH == 2

\* Values of the clock when an RNG is constructed.
ClockTicks == {3, 4, 6}

\* operator<<(int): the decimal digits, as character codes.
RECURSIVE Digits(_)
Digits(n) == IF n < 10 THEN <<48 + n>> ELSE Digits(n \div 10) \o <<48 + (n % 10)>>

\* renderer.cpp:31  "P6\n" << cam.W << " " << cam.H << "\n255\n"
Header(W, H) == <<80, 54, 10>> \o Digits(W) \o <<32>> \o Digits(H) \o <<10, 50, 53, 53, 10>>

\* An entry of the trail: what happened, for which pixel, and its number (the
\* draw's number in the RNG, the sample's number, the channel written).
Event(ev, i, j, n) == [ev |-> ev, i |-> i, j |-> j, n |-> n]

\* The scenes and cameras rendered: no objects under a camera at main's
\* angles (main.cpp:17) with a field of view of 45 or 90 degrees; objects on
\* the y axis under a camera on that axis with a field of view of 0.
ImageSetups ==
    {<<[objects |-> << >>, materials |-> Materials, lights |-> ls],
       Camera(Vec3(0, 2, 8), Vec3(0, 2, 0), AxisY, fov, W, H)>> :
        ls \in {<< >>, LightCatalog}, fov \in {45, 90}, W \in 1..MaxW, H \in 1..MaxH}
    \cup
    {<<[objects |-> objs, materials |-> Materials, lights |-> LightCatalog],
       Camera(OnY(500), OnY(1000), AxisX, 0, W, H)>> :
        objs \in {<<Sphere(OnY(1000), 300, 0)>>, <<Sphere(OnY(1000), 300, 1)>>,
                  <<Sphere(OnY(0), 300, 1), Sphere(OnY(1000), 300, 1)>>},
        W \in 1..MaxW, H \in 1..MaxH}

InitImage ==
    /\ \E su \in ImageSetups : scene = su[1] /\ cam = su[2]
    /\ spp \in 1..MaxSpp
    /\ smp = 0 /\ col = Zero3 /\ rng = 0
    /\ prim = Ray(Zero3, AxisY)
    /\ stack = << >> /\ ret = NoRet /\ calls = NoCalls /\ shadowLog = {}
    /\ ray = prim /\ tmin = 0 /\ tmax = 0
    /\ sph = Sphere(Zero3, 0, 0) /\ rec = NewHit(0) /\ ok = FALSE
    /\ idx = 0 /\ closest = 0 /\ hitAny = FALSE /\ best = NewHit(0) /\ temp = NewHit(0)
    /\ jRow = 0 /\ iCol = 0
    /\ out = [fail |-> FALSE, file |-> << >>]
    /\ err = << >> /\ gen = 0 /\ trail = << >> /\ prevFile = << >>
    /\ run = 1
    /\ BuildIdle
    /\ pc = "render"

\* What no step of a whole-image render touches.
imageIdle == <<ray, tmin, tmax, sphereVars, ok, scanVars, prim, stack, ret, calls, shadowLog,
               buildVars>>

\* Mutant of AfterOpen: renderPPM returns when the stream failed to open.
AfterOpenChecked(fail) == IF fail THEN "returned" ELSE "row"

\* renderer.cpp:30-31  the position after the stream is constructed: the
\* stream's state is not tested.
AfterOpen(fail) == "row"

\* Mutant of MoreSamples: one sample more.
MoreSamplesInclusive(s, n) == s <= n

\* renderer.cpp:40  s < spp
MoreSamples(s, n) == s < n

\* Mutant of FirstRow: the rows are started from row 0.
FirstRowZero(c) == 0

\* renderer.cpp:34  int j = cam.H - 1
FirstRow(c) == c.H - 1

\* renderer.cpp:30-34: the stream is opened (the file is truncated) or fails
\* to open (the file stays as it was); the header is written to it; the RNG
\* is constructed without a seed; the row loop starts.
RenderOpen ==
    /\ pc = "render"
    /\ \E fail \in BOOLEAN :
          /\ out' = [fail |-> fail,
                     file |-> IF fail THEN out.file ELSE Header(cam.W, cam.H)]
          /\ pc' = AfterOpen(fail)
    /\ \E clock \in ClockTicks : gen' = GenSeeded(RNGSeed(0, clock))
    /\ rng' = 0
    /\ trail' = << Event("header", 0, 0, 0) >>
    /\ err' = << >>
    /\ jRow' = FirstRow(cam)
    /\ iCol' = 0 /\ smp' = 0 /\ col' = Zero3
    /\ UNCHANGED <<imageIdle, scene, cam, spp, run, prevFile>>

\* renderer.cpp:34-37: a row starts.
RowStart ==
    /\ pc = "row"
    /\ jRow >= 0
    /\ err' = Append(err, [msg |-> "Row", a |-> cam.H - 1 - jRow, b |-> cam.H])
    /\ iCol' = 0
    /\ pc' = "pixel"
    /\ UNCHANGED <<imageIdle, scene, cam, spp, smp, col, rng, gen, jRow, out, trail, run, prevFile>>

\* renderer.cpp:37-40: a pixel starts.
PixelStart ==
    /\ pc = "pixel"
    /\ iCol < cam.W
    /\ col' = Zero3
    /\ smp' = 0
    /\ pc' = "sample"
    /\ UNCHANGED <<imageIdle, scene, cam, spp, rng, gen, jRow, iCol, out, err, trail, run, prevFile>>

\* renderer.cpp:37, 34: the row is complete.
RowDone ==
    /\ pc = "pixel"
    /\ iCol >= cam.W
    /\ jRow' = jRow - 1
    /\ pc' = "row"
    /\ UNCHANGED <<imageIdle, scene, cam, spp, smp, col, rng, gen, iCol, out, err, trail, run, prevFile>>

\* Mutant of SceneAfterTrace: the objects are left in another order, as by a
\* scan that moves the object last tested to the front.
SceneAfterTraceReordered(sc, r) ==
    [sc EXCEPT !.objects = IF @ = << >> THEN @ ELSE <<@[Len(@)]>> \o SubSeq(@, 1, Len(@) - 1)]

\* renderer.cpp:66, 114-122; scene.h:26: the scene after a call of trace.
\* Renderer holds it as const Scene&, and trace, shade, reflect, inShadow,
\* Scene::intersect and the objects' intersect are const and assign to no
\* member of it.
SceneAfterTrace(sc, r) == sc

\* renderer.cpp:41  ((i + rng.uniform()) / double(cam.W)) * 2.0 - 1.0, in
\* thousandths; the same for j and cam.H on line 42.
ScreenCoord(k, draw, n) == QuotZ((k * 1000 + draw) * 2, n) - 1000

\* renderer.cpp:40-45: one sample.  The draw for u is made before the draw
\* for v; trace returns and its value is added, or it does not return.
PixelSample ==
    /\ pc = "sample"
    /\ MoreSamples(smp, spp)
    /\ LET g1 == GenStep(gen)
           g2 == GenStep(g1)
           u  == ScreenCoord(iCol, Uniform(g1), cam.W)
           v  == ScreenCoord(jRow, Uniform(g2), cam.H)
           pr == Primary(cam, u, v)
           tr == TraceImage(scene, pr)
       IN  /\ gen' = g2
           /\ rng' = rng + 2
           /\ trail' = trail \o << Event("drawU", iCol, jRow, rng),
                                   Event("drawV", iCol, jRow, rng + 1),
                                   Event("trace", iCol, jRow, smp) >>
           /\ scene' = SceneAfterTrace(scene, pr)
           /\ IF tr.returns
              THEN col' = VAdd(col, tr.v) /\ smp' = smp + 1 /\ pc' = pc
              ELSE col' = col /\ smp' = smp /\ pc' = "overflow"
    /\ UNCHANGED <<imageIdle, cam, spp, jRow, iCol, out, err, run, prevFile>>

\* std::ofstream::write: nothing reaches the file of a failed stream.
StreamWrite(o, bytes) == IF o.fail THEN o ELSE [o EXCEPT !.file = @ \o bytes]

\* renderer.cpp:47-55: the three bytes of a pixel from the sum of its samples.
PixelBytes(c, n) ==
    LET avg == VDiv(c, n)
    IN  << Byte(Reinhard(avg[1])), Byte(Reinhard(avg[2])), Byte(Reinhard(avg[3])) >>

\* renderer.cpp:47-60, 37: the pixel is averaged, tone mapped and written.
PixelWrite ==
    /\ pc = "sample"
    /\ ~MoreSamples(smp, spp)
    /\ col' = VDiv(col, spp)
    /\ out' = StreamWrite(out, PixelBytes(col, spp))
    /\ trail' = trail \o << Event("write", iCol, jRow, 0), Event("write", iCol, jRow, 1),
                            Event("write", iCol, jRow, 2) >>
    /\ iCol' = iCol + 1
    /\ pc' = "pixel"
    /\ UNCHANGED <<imageIdle, scene, cam, spp, smp, rng, gen, jRow, err, run, prevFile>>

\* renderer.cpp:34, 61-63: the rows are done; "Wrote"; return.
RowsDone ==
    /\ pc = "row"
    /\ jRow < 0
    /\ err' = Append(err, [msg |-> "Wrote", a |-> 0, b |-> 0])
    /\ pc' = "returned"
    /\ UNCHANGED <<imageIdle, scene, cam, spp, smp, col, rng, gen, jRow, iCol, out, trail, run,
                   prevFile>>

\* renderer.cpp:133-136: render_scene_ppm is called again with the same
\* scene, camera, spp and path; the file of the first call is kept aside.
RenderAgain ==
    /\ pc = "returned"
    /\ run = 1
    /\ run' = 2
    /\ prevFile' = out.file
    /\ out' = [fail |-> FALSE, file |-> out.file]
    /\ smp' = 0 /\ col' = Zero3 /\ rng' = 0 /\ gen' = 0
    /\ jRow' = 0 /\ iCol' = 0
    /\ err' = << >> /\ trail' = << >>
    /\ pc' = "render"
    /\ UNCHANGED <<imageIdle, scene, cam, spp>>

NextImage ==
    \/ RenderOpen \/ RowStart \/ PixelStart \/ RowDone \/ PixelSample \/ PixelWrite
    \/ RowsDone \/ RenderAgain

SpecImage == InitImage /\ [][NextImage]_vars

(***************************************************************************)
(* SpecBuild: a scene built by any calls of addMaterial and add.           *)
(***************************************************************************)
\* Most materials of a scene.
MaxMaterials == 3

\* The materials handed to addMaterial: those of main.cpp:21, 41, 42.
MaterialChoices ==
    {Material(Vec3(8, 8, 8), FALSE), Material(Vec3(8, 2, 2), TRUE), Material(Vec3(2, 8, 2), FALSE)}

\* The indices addMaterial has returned.
IssuedIds == {issued[n].id : n \in 1..Len(issued)}

InitBuild ==
    /\ scene = EmptyScene
    /\ RenderIdle /\ ImageIdle /\ BuildIdle
    /\ ray = Ray(Zero3, AxisY) /\ tmin = 0 /\ tmax = 0
    /\ sph = Sphere(Zero3, 0, 0) /\ rec = NewHit(0) /\ ok = FALSE
    /\ idx = 0 /\ closest = 0 /\ hitAny = FALSE /\ best = NewHit(0) /\ temp = NewHit(0)
    /\ pc = "build"

\* What no step of building a scene touches.
buildIdle == <<ray, tmin, tmax, sphereVars, ok, scanVars, renderVars, imageVars>>

\* int id = sc.addMaterial(m)
CallAddMaterial ==
    /\ pc = "build"
    /\ Len(scene.materials) < MaxMaterials
    /\ \E m \in MaterialChoices :
          LET res == AddMaterial(scene, m)
          IN  /\ scene' = res.scene
              /\ issued' = Append(issued, [before |-> Len(scene.materials), m |-> m,
                                           id |-> res.id])
    /\ UNCHANGED <<buildIdle, argv, disk, frame, renders, exitCode, pc>>

\* sc.add(std::make_unique<Sphere>(c, R, id)) with an index addMaterial returned
CallAdd ==
    /\ pc = "build"
    /\ Len(scene.objects) < MaxObjects
    /\ \E id \in IssuedIds, cy \in {0, 1000} :
          scene' = AddObject(scene, Sphere(OnY(cy), 300, id))
    /\ UNCHANGED <<buildIdle, buildVars, pc>>

NextBuild == CallAddMaterial \/ CallAdd

SpecBuild == InitBuild /\ [][NextBuild]_vars

(***************************************************************************)
(* SpecMain: main (main.cpp:14-52).  The coordinates of main's objects     *)
(* count tenths of a world unit.  The render that main starts is the       *)
(* subject of SpecImage; here the call is counted.                         *)
(***************************************************************************)
\* Plane (plane.h)
Plane(p, n, m) == [kind |-> "plane", p |-> p, n |-> n, matId |-> m]

\* Triangle (triangle.h), its corners as indices of the vertex list.
Triangle(a, b, c, m) == [kind |-> "triangle", a |-> a, b |-> b, c |-> c, matId |-> m]

\* add_mesh (obj_loader.h): one Triangle per three consecutive indices, all
\* of material m.
RECURSIVE AddMesh(_, _, _)
AddMesh(sc, I, m) ==
    IF Len(I) < 3 THEN sc
    ELSE AddMesh(AddObject(sc, Triangle(I[1], I[2], I[3], m)), SubSeq(I, 4, Len(I)), m)

\* Vertex counts and index lists a mesh file may yield.
MeshVertices == {0, 3, 4}

MeshIndices == {<< >>, <<0, 1, 2>>, <<0, 1, 2, 0, 2, 3>>}

\* load_obj_positions_indices (obj_loader.h): V and I as the file fills them
\* and whether the file parsed.
LoadObj(d) == [ok |-> d.parses, V |-> d.V, I |-> d.I]

\* Mutant of Loaded: the lists are not tested for emptiness.
LoadedUnlessMissing(exists, parses, V, I) == exists /\ parses

\* main.cpp:31  fs::exists(objPath) && load_obj_positions_indices(objPath, V, I)
\*              && !V.empty() && !I.empty()
Loaded(exists, parses, V, I) == exists /\ parses /\ V # 0 /\ I # << >>

InitMain ==
    /\ scene = EmptyScene
    /\ RenderIdle /\ ImageIdle
    /\ ray = Ray(Zero3, AxisY) /\ tmin = 0 /\ tmax = 0
    /\ sph = Sphere(Zero3, 0, 0) /\ rec = NewHit(0) /\ ok = FALSE
    /\ idx = 0 /\ closest = 0 /\ hitAny = FALSE /\ best = NewHit(0) /\ temp = NewHit(0)
    /\ issued = << >>
    /\ argv \in {<< >>, <<"mesh.obj">>}
    /\ \E e, p \in BOOLEAN, nv \in MeshVertices, ix \in MeshIndices :
          disk = [exists |-> e, parses |-> p, V |-> nv, I |-> ix]
    /\ frame = NoFrame /\ renders = 0 /\ exitCode = -1
    /\ pc = "main"

\* What no step of main touches.
mainIdle == <<ray, tmin, tmax, sphereVars, ok, scanVars, smp, col, rng, prim, stack, ret, calls,
              shadowLog, jRow, iCol, out, gen, trail, run, prevFile, argv, disk>>

\* The issued log after an addMaterial call on sc that returned res.
Logged(log, sc, m, res) == Append(log, [before |-> Len(sc.materials), m |-> m, id |-> res.id])

\* main.cpp:16-25: camera, scene, ground plane, light.
MainGround ==
    /\ pc = "main"
    /\ cam' = Camera(Vec3(0, 1, 4), Vec3(0, 1, 0), AxisY, 45, 800, 600)
    /\ LET grey == Material(Vec3(8, 8, 8), FALSE)
           res  == AddMaterial(scene, grey)
       IN  /\ scene' = AddLight(AddObject(res.scene, Plane(Zero3, AxisY, res.id)),
                                PointLight(Vec3(20, 30, 20), Vec3(30, 30, 30)))
           /\ frame' = [frame EXCEPT !.matGrey = res.id]
           /\ issued' = Logged(issued, scene, grey, res)
    /\ pc' = "load"
    /\ UNCHANGED <<mainIdle, spp, err, renders, exitCode>>

\* main.cpp:28-31.  load_obj_positions_indices is called only for a path that
\* exists; it fills V and I from the file and says whether it parsed.
MainLoad ==
    /\ pc = "load"
    /\ LET path == IF Len(argv) > 0 THEN argv[1] ELSE "../assets/dragon_res3.obj"
           V    == IF disk.exists THEN LoadObj(disk).V ELSE 0
           I    == IF disk.exists THEN LoadObj(disk).I ELSE << >>
       IN  frame' = [frame EXCEPT !.objPath = path, !.V = V, !.I = I,
                                  !.loaded = Loaded(disk.exists, LoadObj(disk).ok, V, I)]
    /\ pc' = "mesh"
    /\ UNCHANGED <<mainIdle, scene, cam, spp, err, issued, renders, exitCode>>

\* main.cpp:32-35: the mesh gets its material and its triangles.
MainMesh ==
    /\ pc = "mesh"
    /\ frame.loaded
    /\ err' = Append(err, [msg |-> "Loaded OBJ", a |-> frame.V, b |-> Len(frame.I) \div 3])
    /\ LET bunny == Material(Vec3(8, 8, 9), FALSE)
           res   == AddMaterial(scene, bunny)
       IN  /\ scene' = AddMesh(res.scene, frame.I, res.id)
           /\ frame' = [frame EXCEPT !.matBunny = res.id]
           /\ issued' = Logged(issued, scene, bunny, res)
    /\ pc' = "spheres"
    /\ UNCHANGED <<mainIdle, cam, spp, renders, exitCode>>

\* main.cpp:36-38: no mesh.
MainNoMesh ==
    /\ pc = "mesh"
    /\ ~frame.loaded
    /\ err' = Append(err, [msg |-> "OBJ not found or failed to load", a |-> 0, b |-> 0])
    /\ pc' = "spheres"
    /\ UNCHANGED <<mainIdle, scene, cam, spp, frame, issued, renders, exitCode>>

\* main.cpp:41-47: three materials, three spheres.
MainSpheres ==
    /\ pc = "spheres"
    /\ LET red   == Material(Vec3(8, 2, 2), TRUE)
           green == Material(Vec3(2, 8, 2), FALSE)
           blue  == Material(Vec3(2, 2, 8), FALSE)
           r1    == AddMaterial(scene, red)
           r2    == AddMaterial(r1.scene, green)
           r3    == AddMaterial(r2.scene, blue)
       IN  /\ scene' = AddObject(AddObject(AddObject(r3.scene,
                           Sphere(Vec3(-12, 20, 0), 5, r1.id)),
                           Sphere(Vec3(12, 10, 0), 10, r2.id)),
                           Sphere(Vec3(0, 10, -20), 7, r3.id))
           /\ frame' = [frame EXCEPT !.matRed = r1.id, !.matGreen = r2.id, !.matBlue = r3.id]
           /\ issued' = Logged(Logged(Logged(issued, scene, red, r1), r1.scene, green, r2),
                               r2.scene, blue, r3)
    /\ pc' = "render"
    /\ UNCHANGED <<mainIdle, cam, spp, err, renders, exitCode>>

\* main.cpp:50  render_scene_ppm(sc, cam, SPP, "out.ppm")
MainRender ==
    /\ pc = "render"
    /\ spp' = 4
    /\ renders' = renders + 1
    /\ pc' = "return"
    /\ UNCHANGED <<mainIdle, scene, cam, err, frame, issued, exitCode>>

\* main.cpp:51  return 0
MainReturn ==
    /\ pc = "return"
    /\ exitCode' = 0
    /\ pc' = "exited"
    /\ UNCHANGED <<mainIdle, scene, cam, spp, err, frame, issued, renders>>

NextMain ==
    \/ MainGround \/ MainLoad \/ MainMesh \/ MainNoMesh \/ MainSpheres \/ MainRender
    \/ MainReturn

SpecMain == InitMain /\ [][NextMain]_vars

(***************************************************************************)
(* Claims about Sphere::intersect (SpecSphere).                            *)
(***************************************************************************)
InRange(t, lo, hi) == lo <= t /\ t <= hi

\* C2: Sphere.intersect returns false when the discriminant is negative;
\* otherwise, with roots t1 <= t2, it reports t1 if tmin <= t1 <= tmax, else
\* t2 if tmin <= t2 <= tmax, else false.  Every reported hit has
\* tmin <= rec.t <= tmax and a hit is reported whenever a root is in range.
SphereRootSelection ==
    pc = "ret" =>
        IF SphereDisc(sph, ray) < 0 THEN ~ok
        ELSE LET t1  == SphereRoot1(sph, ray)
                 t2  == SphereRoot2(sph, ray)
                 in1 == InRange(t1, tmin, tmax)
                 in2 == InRange(t2, tmin, tmax)
             IN  /\ t1 <= t2
                 /\ in1 => (ok /\ rec.t = t1)
                 /\ (~in1 /\ in2) => (ok /\ rec.t = t2)
                 /\ (~in1 /\ ~in2) => ~ok
                 /\ ok => InRange(rec.t, tmin, tmax)
                 /\ (in1 \/ in2) => ok

\* C2 witness: the smaller root lies below tmin and the larger one is reported.
SphereSecondRootReported ==
    /\ pc = "ret" /\ ok
    /\ SphereDisc(sph, ray) > 0
    /\ SphereRoot1(sph, ray) < tmin
    /\ rec.t = SphereRoot2(sph, ray)

\* Distance from the ray's origin to the centre, along the ray.
AlongRay == dot(VSub(sph.c, ray.o), ray.d)

\* The ray starts away from the centre and its direction points at it; the
\* bounds are those of trace.
RayAtCentre ==
    /\ pc = "ret"
    /\ tmin = TraceTMin /\ tmax = TraceTMax
    /\ sph.R > 0
    /\ AlongRay > 0
    /\ RayAt(ray, AlongRay) = sph.c

\* The hit is in front of the origin, on the surface, with an outward normal.
HitOnSurface ==
    /\ ok
    /\ rec.t > 0
    /\ dot(VSub(rec.p, sph.c), VSub(rec.p, sph.c)) = sph.R * sph.R
    /\ dot(VSub(rec.p, sph.c), rec.n) > 0

Report(i) == ObjIntersect(scene.objects[i], ray, tmin, tmax, NewHit(0))

Reporting == {i \in 1..Len(scene.objects) : Report(i).ok}

ScanResult ==
    /\ idx = 1 => closest = tmax
    /\ closest <= tmax
    /\ pc = "scanned" =>
          /\ ok <=> Reporting # {}
          /\ ok => /\ \E i \in Reporting : best.t = Report(i).rec.t
                   /\ \A i \in Reporting : best.t <= Report(i).rec.t

\* C1: Scene.intersect returns true iff some object reports an intersection
\* with t in [tmin, tmax]; then best.t is the least t the objects report;
\* closest starts at tmax and never increases during the scan.
SceneNearestHit == []ScanResult /\ [][closest' <= closest]_vars

\* C1 witness: two objects report different t, the nearer one is returned
\* and closest has shrunk below tmax.
SceneNearestOfTwo ==
    /\ pc = "scanned" /\ ok
    /\ \E i, k \in Reporting : Report(i).rec.t < Report(k).rec.t /\ i > k
    /\ closest < tmax

(***************************************************************************)
(* Claims about the Renderer (Spec).                                       *)
(***************************************************************************)
\* The sky colour by direction: straight up is the blue end of the gradient,
\* straight down the white end, level the middle.
SkyOf(r) ==
    IF r.d[2] = 1 THEN Vec3(60, 80, 100)
    ELSE IF r.d[2] = -1 THEN Vec3(100, 100, 100)
    ELSE Vec3(80, 90, 100)

\* The top-level trace of the running sample has returned.
TopReturned == pc = "run" /\ stack = << >> /\ ret.has

PrimaryMisses == ~SceneIntersect(scene, prim, TraceTMin, TraceTMax, NewHit(0)).ok

\* A trace frame holds the value its call of shade returned.
ShadeCameBack == pc = "run" /\ stack # << >> /\ Top.fn = "trace" /\ Top.at = "wait" /\ ret.has

TraceOutcome ==
    /\ TopReturned =>
          IF PrimaryMisses
          THEN /\ ret.v = SkyOf(prim)
               /\ calls.shade = 0 /\ calls.reflect = 0 /\ calls.inShadow = 0
          ELSE calls.shade >= 1
    /\ (TopReturned /\ scene.objects = << >> /\ scene.lights = << >>) => ret.v = SkyOf(prim)

\* C4: trace returns the sky colour of the ray's direction, without calling
\* shade, inShadow or reflect, exactly when Scene.intersect(ray, 1e-6, 1e9)
\* reports no hit; otherwise it returns what shade(hit, ray) returned.  In a
\* scene without objects and lights every sample is a sky colour.
TraceSkyOrShade == []TraceOutcome /\ [][ShadeCameBack => ret'.v = ret.v]_vars

\* C4 witness: a primary ray misses every object of a scene that has objects.
TraceMissedObjects ==
    /\ TopReturned /\ PrimaryMisses
    /\ scene.objects # << >>
    /\ ret.v = Vec3(60, 80, 100)

\* The sum of the contributions of the lights i.. that are not in shadow at h.
RECURSIVE UnoccludedSum(_, _)
UnoccludedSum(h, i) ==
    IF i > Len(scene.lights) THEN Zero3
    ELSE VAdd(IF InShadow(scene, h.p, h.n, scene.lights[i]) THEN Zero3
              ELSE LightContribution(MaterialAt(scene, h.matId), h, scene.lights[i]),
              UnoccludedSum(h, i + 1))

\* What the ray reflected at hit h of ray r meets.
ReflectedHit(h, r) == SceneIntersect(scene, ReflectRay(h, r), TraceTMin, TraceTMax, NewHit(0))

\* The reflected ray of a mirror hit meets a surface that is no mirror.
MirrorSeesDiffuse(h, r) ==
    /\ MaterialAt(scene, h.matId).reflective
    /\ ReflectedHit(h, r).ok
    /\ ~MaterialAt(scene, ReflectedHit(h, r).rec.matId).reflective

\* C5: when shade is called on a reflective hit and the reflected ray's
\* nearest hit is a non-reflective surface, shade makes exactly one nested
\* call of trace, runs no pass of its own loop over the lights, and returns
\* exactly what shade gives for the reflected ray's hit.
MirrorOneLevel ==
    /\ (/\ pc = "run" /\ stack # << >>
        /\ Top.fn = "shade" /\ Top.at = "wait" /\ ret.has
        /\ MirrorSeesDiffuse(Top.h, Top.r))
       => /\ calls.trace - Top.traces = 1
          /\ Top.tests = 0 /\ Top.li = 0
          /\ ret.v = UnoccludedSum(ReflectedHit(Top.h, Top.r).rec, 1)
    /\ (ShadeCameBack /\ MirrorSeesDiffuse(Top.h, Top.r))
       => ret.v = UnoccludedSum(ReflectedHit(Top.h, Top.r).rec, 1)

\* C5 witness: a mirror's shade has returned the lit colour of a diffuse
\* surface.
MirrorReturnedDiffuse ==
    /\ ShadeCameBack /\ MirrorSeesDiffuse(Top.h, Top.r)
    /\ ret.v # Zero3

\* C6 as stated: the depth of nested trace calls reached through reflective
\* materials never exceeds a fixed maximum, 16 at the most.
ReflectionDepthCapped == Depth <= 16

\* C7 as stated: every call of trace returns, so the render finishes.  The
\* render is sequential code that waits for nothing: a call of trace fails
\* to return only when the chain of bounces below it does not end, which is
\* when it outgrows every stack.
EveryTraceReturns == pc # "overflow"

\* C8: for a hit on a non-reflective material shade returns the sum, over
\* exactly the lights for which inShadow is false, of the light's Lambertian
\* contribution; every light is tested exactly once; with no light, or every
\* light occluded, the result is black.
DiffuseSumsUnoccluded ==
    /\ (pc = "run" /\ stack # << >> /\ Top.fn = "shade" /\ Top.at = "lights")
       => /\ Top.tests = Top.li - 1
          /\ Top.li > Len(scene.lights)
                => (Top.c = UnoccludedSum(Top.h, 1) /\ Top.tests = Len(scene.lights))
    /\ (ShadeCameBack /\ ~MaterialAt(scene, Top.h.matId).reflective)
       => /\ ret.v = UnoccludedSum(Top.h, 1)
          /\ (\A i \in 1..Len(scene.lights) :
                 InShadow(scene, Top.h.p, Top.h.n, scene.lights[i])) => ret.v = Zero3

\* C8 witness: of two lights one is in shadow and one is not, and the result
\* is not black.
DiffuseOneOfTwoLights ==
    /\ ShadeCameBack /\ ~MaterialAt(scene, Top.h.matId).reflective
    /\ Len(scene.lights) = 2
    /\ \E i, k \in 1..2 : /\ InShadow(scene, Top.h.p, Top.h.n, scene.lights[i])
                          /\ ~InShadow(scene, Top.h.p, Top.h.n, scene.lights[k])
    /\ ret.v # Zero3

\* Object obj has a root t of the ray with lo < t <= hi, or lo <= t <= hi.
RootWithin(obj, r, lo, hi, open) ==
    /\ SphereDisc(obj, r) >= 0
    /\ \E t \in {SphereRoot1(obj, r), SphereRoot2(obj, r)} :
          /\ IF open THEN lo < t ELSE lo <= t
          /\ t <= hi

\* The logged result of each inShadow call is true iff some object has a root
\* of the shadow ray between 0 and distance - 1e-5.
ShadowMatchesRoots(open) ==
    \A e \in shadowLog :
        e.res <=> \E i \in 1..Len(scene.objects) :
                     RootWithin(scene.objects[i], ShadowRay(e.p, e.n, e.L), 0,
                                ShadowDist(e.p, e.L) - ShadowSlack, open)

\* C9 as stated: inShadow is true iff the shadow ray from p + n*eps toward L
\* meets an object at some t between 0 and distance - 1e-5, the lower bound 0
\* excluded.
ShadowIntervalOpenAtZero == ShadowMatchesRoots(TRUE)

\* C9 amended: the interval is closed at both ends, [0, distance - 1e-5]; an
\* object met only at t > distance - 1e-5 never makes inShadow true.
ShadowIntervalClosed == ShadowMatchesRoots(FALSE)

\* C9 witness: inShadow was true for a shadow ray that starts on the surface
\* of the only object it meets in range, at t = 0.
ShadowAtZero ==
    \E e \in shadowLog :
        /\ e.res
        /\ \E i \in 1..Len(scene.objects) :
              RootWithin(scene.objects[i], ShadowRay(e.p, e.n, e.L), 0, 0, FALSE)
        /\ \A i \in 1..Len(scene.objects) :
              ~RootWithin(scene.objects[i], ShadowRay(e.p, e.n, e.L), 0,
                          ShadowDist(e.p, e.L) - ShadowSlack, TRUE)

IsWrite(e) == e.ev \in {"header", "write"}

\* The writes of the running render, in order.
Writes == SelectSeq(trail, IsWrite)

\* Pixels whose three bytes were written.
PixelsWritten == (Len(Writes) - 1) \div 3

\* The n-th write after the header (n from 0) is channel n mod 3 of the pixel
\* with write index k = n div 3, which is column k mod W of row H-1 - k div W.
WriteInPlace(n) ==
    LET e == Writes[n + 2]
        k == n \div 3
    IN  /\ e.ev = "write"
        /\ e.n = n % 3
        /\ e.i = k % cam.W
        /\ e.j = cam.H - 1 - (k \div cam.W)

\* C11: renderPPM writes the header once, first, and then the pixels, three
\* bytes each in R, G, B order with nothing in between; the k-th pixel written
\* is column k mod W of row H-1 - (k div W); when it returns exactly W*H
\* pixels were written, and the file of a stream that opened holds the header
\* and these bytes only.
PixelStreamOrder ==
    pc # "render" =>
        /\ Writes # << >> /\ Writes[1].ev = "header"
        /\ \A n \in 0..(Len(Writes) - 2) : WriteInPlace(n)
        /\ (Len(Writes) - 1) % 3 = 0
        /\ pc = "returned" => PixelsWritten = cam.W * cam.H
        /\ ~out.fail =>
              /\ SubSeq(out.file, 1, Len(Header(cam.W, cam.H))) = Header(cam.W, cam.H)
              /\ Len(out.file) = Len(Header(cam.W, cam.H)) + 3 * PixelsWritten
              /\ \A n \in 1..Len(out.file) : out.file[n] \in 0..255
        /\ (~out.fail /\ pc = "pixel" /\ iCol > 0) =>
              SubSeq(out.file, Len(out.file) - 2, Len(out.file))
                 = <<Byte(Reinhard(col[1])), Byte(Reinhard(col[2])), Byte(Reinhard(col[3]))>>

\* C11 witness: a 2 x 2 image was written whole, and its channels differ.
ImageWritten ==
    /\ pc = "returned" /\ ~out.fail
    /\ cam.W = 2 /\ cam.H = 2
    /\ Len(out.file) = Len(Header(2, 2)) + 12
    /\ out.file[Len(out.file)] # out.file[Len(out.file) - 2]

\* C12 as stated: two runs of render_scene_ppm with the same scene, camera
\* and spp write the same bytes.  The seed is no argument of
\* render_scene_ppm or renderPPM, so a caller who repeats a run repeats
\* these arguments and nothing else.
RenderDeterministic ==
    (run = 2 /\ pc = "returned" /\ ~out.fail /\ prevFile # << >>) => out.file = prevFile

(***************************************************************************)
(* Claims about building the scene (SpecBuild, SpecMain).                  *)
(***************************************************************************)
\* C13: addMaterial returns the number of materials before the call, which
\* is the index the material is stored at; every index returned so far still
\* refers to the material it was returned for, whatever addMaterial and add
\* calls followed; so the matId of every object added with a returned index
\* is in range and means what it meant.
MaterialIdsStable ==
    /\ \A n \in 1..Len(issued) :
          /\ issued[n].id = issued[n].before
          /\ 0 <= issued[n].id /\ issued[n].id < Len(scene.materials)
          /\ MaterialAt(scene, issued[n].id) = issued[n].m
    /\ \A n, k \in 1..Len(issued) : n # k => issued[n].id # issued[k].id
    /\ \A n \in 1..Len(scene.objects) :
          /\ scene.objects[n].matId \in IssuedIds
          /\ 0 <= scene.objects[n].matId /\ scene.objects[n].matId < Len(scene.materials)

\* C13 witness: three different materials were added, and objects refer to
\* the first and to the last of them.
MaterialsAddedAroundObjects ==
    /\ Len(issued) = 3
    /\ issued[1].m # issued[2].m /\ issued[2].m # issued[3].m /\ issued[1].m # issued[3].m
    /\ Len(scene.objects) = 2
    /\ scene.objects[1].matId = 0 /\ scene.objects[2].matId = 2

\* The objects of the scene whose material is reflective.
ReflectiveObjects ==
    {n \in 1..Len(scene.objects) :
        /\ scene.objects[n].matId \in 0..(Len(scene.materials) - 1)
        /\ MaterialAt(scene, scene.objects[n].matId).reflective}

\* The spheres of the scene, in the order they were added.
SpheresAdded == {n \in 1..Len(scene.objects) : scene.objects[n].kind = "sphere"}

\* C14: in the scene main builds, with or without the mesh, every object's
\* matId is at least 0 and below the number of materials when
\* render_scene_ppm is called (and at every moment before and after), so
\* every scene.materials[h.matId] of the render is in range; and the only
\* reflective material is matRed, the material of the first sphere alone.
MainMatIdsInRange ==
    /\ \A n \in 1..Len(scene.objects) :
          0 <= scene.objects[n].matId /\ scene.objects[n].matId < Len(scene.materials)
    /\ pc \in {"render", "return", "exited"} =>
          /\ Len(scene.objects) >= 4
          /\ \A id \in 0..(Len(scene.materials) - 1) :
                MaterialAt(scene, id).reflective <=> id = frame.matRed
          /\ \E first \in SpheresAdded :
                /\ \A n \in SpheresAdded : first <= n
                /\ ReflectiveObjects = {first}
                /\ scene.objects[first].matId = frame.matRed

\* C14 witness: render_scene_ppm is called with a mesh of two triangles in
\* the scene, whose material shifted the indices of the spheres' materials.
MainRendersMesh ==
    /\ pc = "render"
    /\ frame.loaded
    /\ \E n, k \in 1..Len(scene.objects) :
          n # k /\ scene.objects[n].kind = "triangle" /\ scene.objects[k].kind = "triangle"
    /\ frame.matBunny = 1 /\ frame.matRed = 2 /\ frame.matBlue = 4
    /\ Len(scene.materials) = 5

\* The mesh file exists, parses and yields vertices and indices.
MeshUsable == disk.exists /\ disk.parses /\ disk.V # 0 /\ disk.I # << >>

\* The kinds of the objects, in order.
ObjectKinds == [n \in 1..Len(scene.objects) |-> scene.objects[n].kind]

\* C15: when the mesh file does not exist, does not parse, or yields no
\* vertex or no index, main adds no mesh material and no triangle, adds the
\* ground plane, the light and the three spheres, calls render_scene_ppm
\* once and returns 0; no path of main ends in another way.
MeshFailureNotFatal ==
    /\ exitCode \in {-1, 0} /\ renders <= 1
    /\ (pc = "exited") <=> (exitCode = 0)
    /\ pc = "exited" => renders = 1
    /\ (~MeshUsable /\ pc \notin {"main", "load"}) =>
          /\ ~frame.loaded /\ frame.matBunny = -1
          /\ \A n \in 1..Len(scene.objects) : scene.objects[n].kind # "triangle"
          /\ Len(scene.lights) = 1
    /\ (~MeshUsable /\ pc \in {"render", "return", "exited"}) =>
          /\ ObjectKinds = <<"plane", "sphere", "sphere", "sphere">>
          /\ Len(scene.materials) = 4
          /\ frame.matGrey = 0 /\ frame.matRed = 1 /\ frame.matGreen = 2 /\ frame.matBlue = 3
    /\ pc # "exited" => ENABLED NextMain

\* C15 witness: main has returned 0 after a mesh file that parsed and held
\* vertices but no index.
MainReturnedWithoutMesh ==
    /\ pc = "exited" /\ exitCode = 0 /\ renders = 1
    /\ disk.exists /\ disk.parses /\ disk.V # 0 /\ disk.I = << >>
    /\ Len(scene.objects) = 4

IsTrace(e) == e.ev = "trace"

IsRow(m) == m.msg = "Row"

\* C16: when the output file cannot be opened renderPPM goes on as if it had
\* been: nothing reaches the file, no step tests the stream, and when
\* renderPPM returns it has made every write (the header and 3 per pixel)
\* against the failed stream, traced spp samples for each of the W*H pixels,
\* printed every row message and, last, "Wrote".
OpenFailureSilent ==
    (out.fail /\ pc # "render") =>
        /\ out.file = prevFile
        /\ pc = "returned" =>
              /\ Len(Writes) = 1 + 3 * cam.W * cam.H
              /\ Len(SelectSeq(trail, IsTrace)) = cam.W * cam.H * spp
              /\ Len(SelectSeq(err, IsRow)) = cam.H
              /\ err[Len(err)].msg = "Wrote"

\* C16 witness: a render of 2 x 2 pixels with 2 samples each has returned
\* from a stream that failed to open, and there is no file.
RenderedIntoFailedStream ==
    /\ pc = "returned" /\ out.fail
    /\ cam.W = 2 /\ cam.H = 2 /\ spp = 2
    /\ out.file = << >>
    /\ Len(Writes) = 13
    /\ err[Len(err)].msg = "Wrote"

\* Entry q (from 0) of the trail after the header: the entries of a pixel are
\* spp times (draw for u, draw for v, trace) and then the three writes.
TrailEntryInPlace(q) ==
    LET e   == trail[q + 2]
        per == 3 * spp + 3
        k   == q \div per
        r   == q % per
        s   == r \div 3
    IN  /\ e.i = k % cam.W
        /\ e.j = cam.H - 1 - (k \div cam.W)
        /\ IF r >= 3 * spp THEN e.ev = "write" /\ e.n = r - 3 * spp
           ELSE IF r % 3 = 0 THEN e.ev = "drawU" /\ e.n = 2 * spp * k + 2 * s
           ELSE IF r % 3 = 1 THEN e.ev = "drawV" /\ e.n = 2 * spp * k + 2 * s + 1
           ELSE e.ev = "trace" /\ e.n = s

\* C17: for every pixel renderPPM makes spp top-level calls of trace and
\* 2*spp draws, the draw for u before the draw for v in each sample, all
\* after the bytes of the pixel before and before its own bytes; the pixel
\* with write index k uses the draws 2*spp*k .. 2*spp*(k+1) - 1 of the one
\* RNG of the render.
SamplesPerPixel ==
    pc \notin {"render", "overflow"} =>
        /\ \A q \in 0..(Len(trail) - 2) : TrailEntryInPlace(q)
        /\ rng = Cardinality({q \in 1..Len(trail) : trail[q].ev \in {"drawU", "drawV"}})
        /\ pc \in {"pixel", "row", "returned"} => rng = 2 * spp * PixelsWritten
        /\ pc = "returned" => rng = 2 * spp * cam.W * cam.H

\* C17 witness: the last pixel of a 2 x 2 image with 2 samples per pixel was
\* written after the draws 12 .. 15.
LastPixelDraws ==
    /\ pc = "returned"
    /\ cam.W = 2 /\ cam.H = 2 /\ spp = 2
    /\ rng = 16
    /\ trail[Len(trail) - 4].ev = "drawV" /\ trail[Len(trail) - 4].n = 15
    /\ trail[Len(trail) - 4].i = 1 /\ trail[Len(trail) - 4].j = 0

\* C18: no step of a render changes the scene's objects, materials or
\* lights, or the camera: the scene and camera of the last pixel are those
\* of the first, and those of a second render those of the first render.
SceneAndCameraUnchanged == [][scene' = scene /\ cam' = cam]_vars

\* C18 witness: a 2 x 2 image of a scene with a lit sphere was rendered to
\* the end with 2 samples per pixel.
RenderedLitSphere ==
    /\ pc = "returned" /\ ~out.fail
    /\ cam.W = 2 /\ cam.H = 2 /\ spp = 2
    /\ Len(scene.objects) = 1 /\ ~MaterialAt(scene, scene.objects[1].matId).reflective
    /\ Len(scene.lights) = 2
    /\ col # Zero3

\* The orders the objects of the scene could have been added in.
Reorderings ==
    LET n == Len(scene.objects)
    IN  {[m \in 1..n |-> scene.objects[f[m]]] :
            f \in {g \in [1..n -> 1..n] : \A a, b \in 1..n : a # b => g[a] # g[b]}}

\* C19 as stated: the t and the matId of the hit Scene.intersect returns are
\* those it returns for every other order of the same objects, the same ray
\* and the same interval, also when two objects meet the ray at the same t.
ScanOrderIndependent ==
    pc = "scanned" =>
        \A objs \in Reorderings :
            LET other == SceneIntersect([scene EXCEPT !.objects = objs], ray, tmin, tmax,
                                        NewHit(0))
            IN  /\ other.ok = ok
                /\ ok => (other.rec.t = best.t /\ other.rec.matId = best.matId)

\* The pass over object idx reports no hit.
PassFails == ~ObjIntersect(scene.objects[idx], ray, tmin, closest, temp).ok

\* C20: a failed intersection query leaves the caller's record untouched.  A
\* pass of the scan whose object reports no hit leaves temp, the record it
\* handed to the object, and best as they were; while no object has hit,
\* best is what the caller passed in, so it is that when Scene.intersect
\* returns false, its flag false for a fresh Hit.  When Scene.intersect
\* returns true, best.hit is true and best.matId is the matId of an object
\* that reports best.t.
FailedQueryLeavesRecord ==
    /\ [][(pc = "scan" /\ idx <= Len(scene.objects) /\ PassFails)
             => (temp' = temp /\ best' = best /\ hitAny' = hitAny)]_vars
    /\ [][~hitAny' => best' = best]_vars
    /\ [](~hitAny => (~best.hit /\ best \in {NewHit(junk) : junk \in StackJunk}))
    /\ []((pc = "scanned" /\ ~ok) => ~hitAny)
    /\ []((pc = "scanned" /\ ok) =>
             /\ best.hit
             /\ \E n \in Reporting : /\ Report(n).rec.t = best.t
                                     /\ scene.objects[n].matId = best.matId)

\* C20 witness: Scene.intersect has returned false for a ray whose line cuts
\* an object outside the interval, and best holds what the caller's fresh
\* Hit held.
ScanFailedOnCutObject ==
    /\ pc = "scanned" /\ ~ok
    /\ \E n \in 1..Len(scene.objects) : SphereDisc(scene.objects[n], ray) > 0
    /\ best = NewHit(7)
    /\ temp = NewHit(7)

====
